---- MODULE Spec2Model ----
(***************************************************************************)
(* A model of avro_schema.convertor.JsonSchema: the JSON-Schema to Avro     *)
(* conversion engine.                                                       *)
(*                                                                          *)
(* Representation of Python values                                          *)
(*   str    a sequence of lexemes (TLA+ strings); "base.Model" is           *)
(*          <<"base", ".", "Model">>, "#/definitions/A" is                  *)
(*          <<"#", "/", "definitions", "/", "A">>.  Concatenation is \o and *)
(*          str.split works on the lexemes.                                 *)
(*   JSON   tagged records: Str(s), Num(n), Null, List(seq) and, for the    *)
(*          input document, Dict(pairs) with pairs an insertion-ordered     *)
(*          sequence of <<key, value>>.  Dicts built by the converter are   *)
(*          Obj(f), f a function from keys to values, so that = on them is  *)
(*          Python's order-insensitive dict equality.                       *)
(*   Optional[x]  None is <<>>, a present value x is <<x>>.                 *)
(*   call outcome [self |-> .., out |-> value] for a return and             *)
(*          [self |-> .., err |-> name] for a raised exception; self is the *)
(*          JsonSchema instance after the call.                             *)
(* The field self.trace is a history variable: it is not in the source and  *)
(* records the calls made during the current to_avro() run.                 *)
(***************************************************************************)
EXTENDS Integers, Sequences, FiniteSets, TLC

VARIABLES schema, namespace, parsed_objects, result, trace, calls

vars == <<schema, namespace, parsed_objects, result, trace, calls>>

(* ---------------------------- bounds ------------------------------------ *)

\* Largest number of to_avro() calls made on one instance.
MaxCalls == 2

\* Largest nesting of _get_avro_type_and_call frames before the interpreter
\* raises RecursionError.
MaxDepth == 12

(* ------------------------- Python values -------------------------------- *)

S(x) == <<x>>

None == <<>>

Some(x) == <<x>>

Str(s) == [str |-> s]

Num(n) == [num |-> n]

Null == [null |-> TRUE]

List(q) == [list |-> q]

Dict(pairs) == [dict |-> pairs]

Obj(f) == [obj |-> f]

IsDict(v) == "dict" \in DOMAIN v

\* key in d
Has(d, k) == \E i \in 1..Len(d.dict) : d.dict[i][1] = k

\* d[k], for a key that is present
Item(d, k) == d.dict[CHOOSE i \in 1..Len(d.dict) : d.dict[i][1] = k][2]

\* d.get(k)
Get(d, k) == IF Has(d, k) THEN Item(d, k) ELSE Null

\* d.get(k, dflt)
GetOr(d, k, dflt) == IF Has(d, k) THEN Item(d, k) ELSE dflt

\* result.update({k: v}) on a dict built by the converter
Update(o, k, v) == Obj((k :> v) @@ o.obj)

\* {"name": name} if name is not None else {}
NameDict(name) == IF name # None THEN Obj([name |-> Str(name[1])]) ELSE Obj(<<>>)

Ret(self, v) == [self |-> self, out |-> v]

Raise(self, e) == [self |-> self, err |-> e]

IsErr(r) == "err" \in DOMAIN r

Log(self, e) == [self EXCEPT !.trace = Append(@, e)]

UnknownType == "TypeError: Unknown type."

NestedDefault == "TypeError: Avro schema cannot have nested objects with default values."

WontResolve == "TypeError: Wont resolve"

(* --------------------------- _find -------------------------------------- *)

RECURSIVE Split(_, _)
\* reference.split(sep): the list of the pieces between the separators
Split(s, sep) ==
    IF \A i \in 1..Len(s) : s[i] # sep
    THEN <<s>>
    ELSE LET i == CHOOSE j \in 1..Len(s) :
                      s[j] = sep /\ \A k \in 1..(j - 1) : s[k] # sep
         IN <<SubSeq(s, 1, i - 1)>> \o Split(SubSeq(s, i + 1, Len(s)), sep)

RECURSIVE Select(_, _, _)
\* for specifier in ref_list[1:]: selector = selector[specifier]
Select(selector, ref_list, i) ==
    IF i > Len(ref_list) THEN [out |-> selector]
    ELSE IF ~IsDict(selector) THEN [err |-> "TypeError"]
    ELSE IF Len(ref_list[i]) # 1 \/ ~Has(selector, ref_list[i][1]) THEN [err |-> "KeyError"]
    ELSE Select(Item(selector, ref_list[i][1]), ref_list, i + 1)

Find(self, reference) ==
    LET ref_list == Split(reference, "/")
    IN IF ref_list[1] = S("#")
       THEN Select(self.schema, ref_list, 2)
       ELSE [err |-> WontResolve]

(* ------------------- _get_avro_type_and_call ---------------------------- *)

\* The name fmt read at line 40 is bound nowhere in the function or the
\* module: evaluating it raises NameError.
FmtIsBound == FALSE

\* The branch of the if/elif chain of lines 22-61 that a node takes.
ClassifyAllOfLast(sch) ==
    LET type_field == Get(sch, "type")
    IN IF type_field = Str(S("object"))
       THEN IF Has(sch, "properties") THEN "record" ELSE "map"
       ELSE IF Has(sch, "$ref") THEN "ref"
       ELSE IF type_field = Str(S("array")) THEN "array"
       ELSE IF Has(sch, "anyOf") THEN "union"
       ELSE IF type_field = Str(S("string")) THEN "string"
       ELSE IF type_field = Str(S("integer")) THEN "integer"
       ELSE IF type_field = Str(S("number")) THEN "number"
       ELSE IF Has(sch, "allOf") THEN "allOf"
       ELSE "unknown"

Classify(sch) ==
    LET type_field == Get(sch, "type")
    IN IF type_field = Str(S("object"))
       THEN IF Has(sch, "properties") THEN "record" ELSE "map"
       ELSE IF Has(sch, "$ref") THEN "ref"
       ELSE IF type_field = Str(S("array")) THEN "array"
       ELSE IF Has(sch, "anyOf") THEN "union"
       ELSE IF Has(sch, "allOf") THEN "allOf"
       ELSE IF type_field = Str(S("string")) THEN "string"
       ELSE IF type_field = Str(S("integer")) THEN "integer"
       ELSE IF type_field = Str(S("number")) THEN "number"
       ELSE "unknown"

JsonPrimitiveTypeToAvroField(name, object_type, default) ==
    IF default = Null
    THEN Update(NameDict(name), "type", Str(S(object_type)))
    ELSE Update(Update(NameDict(name), "type", Str(S(object_type))), "default", default)

JsonLogicalTypeToAvroField(name, object_type, logical_type, default) ==
    LET t == Obj([type |-> Str(S(object_type)), logicalType |-> Str(S(logical_type))])
    IN Update(NameDict(name), "type",
              IF default # Null THEN Update(t, "default", default) ELSE t)

\* Lines 37-55: the branch for type "string".
StringBranch(self, sch, name, default) ==
    IF Get(sch, "format") = Str(S("binary"))
    THEN Ret(self, JsonPrimitiveTypeToAvroField(name, "bytes", default))
    ELSE IF ~FmtIsBound THEN Raise(self, "NameError")
    ELSE LET fmt == Get(sch, "format")
         IN IF fmt = Str(S("date"))
            THEN Ret(self, JsonLogicalTypeToAvroField(name, "int", "date", default))
            ELSE IF fmt = Str(S("time"))
            THEN Ret(self, JsonLogicalTypeToAvroField(name, "long", "time-micros", default))
            ELSE IF fmt = Str(S("date-time"))
            THEN Ret(self, JsonLogicalTypeToAvroField(name, "long", "timestamp-micros", default))
            ELSE Ret(self, JsonPrimitiveTypeToAvroField(name, "string", default))

\* Line 74: record_namespace in self._parsed_objects
AlreadyParsedNever(self, record_namespace) == FALSE

AlreadyParsed(self, record_namespace) == record_namespace \in self.parsed_objects

\* Line 77: self._parsed_objects.add(record_namespace)
RegisterNothing(self, record_namespace) == self

Register(self, record_namespace) ==
    [self EXCEPT !.parsed_objects = @ \cup {record_namespace}]

\* Lines 159 and 161: the namespace argument of the call on the resolved node
\* (none is passed, so the parameter takes its default, None).
RefNamespaceSame(namespace_arg) == namespace_arg

RefNamespace(namespace_arg) == None

\* The arguments of one call of _get_avro_type_and_call.
Args(sch, name, required, namespace_arg) ==
    [sch |-> sch, name |-> name, required |-> required, namespace |-> namespace_arg]

\* The calls the list comprehension of lines 82-92 makes, in dict order.
FieldCalls(properties, required_field, record_namespace) ==
    [i \in 1..Len(properties.dict) |->
        Args(properties.dict[i][2],
             Some(S(properties.dict[i][1])),
             \E j \in 1..Len(required_field.list) :
                 required_field.list[j] = Str(S(properties.dict[i][1])),
             Some(record_namespace))]

\* The calls the list comprehension of lines 149-151 makes.
UnionCalls(items) == [i \in 1..Len(items.list) |-> Args(items.list[i], None, TRUE, None)]

RECURSIVE GetAvroTypeAndCall(_, _, _, _, _, _)
RECURSIVE Comprehension(_, _, _, _, _)
RECURSIVE JsonObjectToAvroRecord(_, _, _, _)

\* [self._get_avro_type_and_call(...) for ... in ...]: the calls are made in
\* order, each on the instance as the one before left it; the first exception
\* ends the comprehension.
Comprehension(self, callseq, i, acc, depth) ==
    IF i > Len(callseq) THEN Ret(self, List(acc))
    ELSE LET a == callseq[i]
             r == GetAvroTypeAndCall(self, a.sch, a.name, a.required, a.namespace, depth)
         IN IF IsErr(r) THEN r
            ELSE Comprehension(r.self, callseq, i + 1, Append(acc, r.out), depth)

JsonObjectToAvroRecord(self, json_object, namespace_arg, depth) ==
    LET required_field == GetOr(json_object, "required", List(<<>>))
    IN IF ~Has(json_object, "title") THEN Raise(self, "KeyError")
       ELSE
       LET title == Item(json_object, "title").str
           ns == IF namespace_arg = None THEN self.namespace ELSE namespace_arg[1]
           record_namespace == ns \o <<".">> \o title
       IN IF AlreadyParsed(self, record_namespace)
          THEN LET short == Obj([type |-> Str(S("record")), name |-> Str(record_namespace)])
               IN Ret(Log(self, [ev |-> "record_ref", sch |-> json_object,
                                 q |-> record_namespace, ret |-> short]),
                      short)
          ELSE LET self1 == Log(Register(self, record_namespace),
                                [ev |-> "record_full", sch |-> json_object,
                                 q |-> record_namespace, namespace |-> ns])
                   properties == Item(json_object, "properties")
               IN IF ~IsDict(properties) THEN Raise(self1, "AttributeError")
                  ELSE
                  LET fr == Comprehension(self1,
                                FieldCalls(properties, required_field, record_namespace),
                                1, <<>>, depth)
                      body == Obj([namespace |-> Str(ns), name |-> Str(title),
                                   type |-> Str(S("record")), fields |-> fr.out])
                  IN IF IsErr(fr) THEN fr
                     ELSE IF Has(json_object, "description")
                     THEN Ret(fr.self, Update(body, "doc", Item(json_object, "description")))
                     ELSE Ret(fr.self, body)

JsonDictToAvroMap(self, name, sch, depth) ==
    IF ~Has(sch, "additionalProperties") THEN Raise(self, "KeyError")
    ELSE LET r == GetAvroTypeAndCall(self, Item(sch, "additionalProperties"),
                                     None, TRUE, None, depth)
         IN IF IsErr(r) THEN r
            ELSE Ret(r.self, Update(NameDict(name), "type",
                                    Obj([type |-> Str(S("map")), values |-> r.out])))

JsonArrayToAvroArray(self, name, sch, depth) ==
    IF ~Has(sch, "items") THEN Raise(self, "KeyError")
    ELSE LET r == GetAvroTypeAndCall(self, Item(sch, "items"), None, TRUE, None, depth)
         IN IF IsErr(r) THEN r
            ELSE Ret(r.self, Update(NameDict(name), "type",
                                    Obj([type |-> Str(S("array")), items |-> r.out])))

JsonAnyofToAvroUnion(self, name, sch, depth) ==
    LET r == Comprehension(self, UnionCalls(Item(sch, "anyOf")), 1, <<>>, depth)
    IN IF IsErr(r) THEN r
       ELSE Ret(r.self, Update(NameDict(name), "type", r.out))

JsonRefToAvroRecord(self, name, sch, namespace_arg, depth) ==
    LET found == Find(self, Item(sch, "$ref").str)
    IN IF IsErr(found) THEN Raise(self, found.err)
       ELSE LET selected_schema == found.out
                r == GetAvroTypeAndCall(self, selected_schema, None, TRUE,
                                        RefNamespace(namespace_arg), depth)
            IN IF IsErr(r) THEN r
               ELSE IF name # None
               THEN Ret(r.self, Obj([name |-> Str(name[1]), type |-> r.out]))
               ELSE r

GetAvroTypeAndCall(self0, sch, name, required, namespace_arg, depth0) ==
    LET depth == depth0 + 1
        self == Log(self0, [ev |-> "call", sch |-> sch, name |-> name,
                            required |-> required, namespace |-> namespace_arg,
                            parsed |-> self0.parsed_objects])
    IN IF depth > MaxDepth THEN Raise(self, "RecursionError")
       ELSE IF ~IsDict(sch) THEN Raise(self, "AttributeError")
       ELSE
       LET default == Get(sch, "default")
           shape == Classify(sch)
           r == CASE shape = "record" -> JsonObjectToAvroRecord(self, sch, namespace_arg, depth)
                  [] shape = "map" -> JsonDictToAvroMap(self, name, sch, depth)
                  [] shape = "ref" -> JsonRefToAvroRecord(self, name, sch, namespace_arg, depth)
                  [] shape = "array" -> JsonArrayToAvroArray(self, name, sch, depth)
                  [] shape = "union" -> JsonAnyofToAvroUnion(self, name, sch, depth)
                  [] shape = "allOf" -> Raise(self, NestedDefault)
                  [] shape = "string" -> StringBranch(self, sch, name, default)
                  [] shape = "integer" ->
                        Ret(self, JsonPrimitiveTypeToAvroField(name, "long", default))
                  [] shape = "number" ->
                        Ret(self, JsonPrimitiveTypeToAvroField(name, "double", default))
                  [] OTHER -> Raise(self, UnknownType)
       IN IF IsErr(r) THEN r
          ELSE IF default = Null /\ ~required
          THEN Ret(r.self,
                   Update(Update(r.out, "type",
                                 List(<<Str(S("null")), r.out.obj["type"]>>)),
                          "default", Null))
          ELSE r

(* ------------------------- documents ------------------------------------ *)

Ref(target) == <<"$ref", Str(<<"#", "/", "definitions", "/", target>>)>>

TypeOf(t) == <<"type", Str(S(t))>>

Integer == Dict(<<TypeOf("integer")>>)

Number == Dict(<<TypeOf("number")>>)

\* A record-shaped object with the given title, properties and required list.
Record(title, properties, required) ==
    Dict(<< <<"title", Str(S(title))>>, TypeOf("object"),
            <<"properties", Dict(properties)>>, <<"required", List(required)>> >>)

RecordA == Record("A", << <<"n", Integer>> >>, <<Str(S("n"))>>)

\* P and Q refer to each other.
RecordP == Record("P", << <<"q", Dict(<<Ref("Q")>>)>> >>, <<>>)

RecordQ == Record("Q", << <<"p", Dict(<<Ref("P")>>)>> >>, <<Str(S("p"))>>)

\* A $ref cycle that passes through no record.
Loop == Dict(<<Ref("L")>>)

Definitions ==
    Dict(<< <<"A", RecordA>>, <<"I", Integer>>, <<"P", RecordP>>,
            <<"Q", RecordQ>>, <<"L", Loop>> >>)

\* The nodes that reach the primitive rules.
PrimitiveNodes ==
    { Integer, Number,
      Dict(<<TypeOf("string")>>),
      Dict(<<TypeOf("string"), <<"format", Str(S("binary"))>> >>),
      Dict(<<TypeOf("string"), <<"format", Str(S("date"))>> >>),
      Dict(<<TypeOf("string"), <<"format", Str(S("time"))>> >>),
      Dict(<<TypeOf("string"), <<"format", Str(S("date-time"))>> >>),
      Dict(<<TypeOf("string"), <<"format", Str(S("uuid"))>> >>),
      Dict(<<TypeOf("boolean")>>),
      Dict(<<>>) }

InlineB == Record("B", << <<"m", Integer>> >>, <<Str(S("m"))>>)

PropertyNodes ==
    { Integer, Number,
      Dict(<<TypeOf("string")>>),
      Dict(<<TypeOf("string"), <<"format", Str(S("binary"))>> >>),
      Dict(<<TypeOf("string"), <<"format", Str(S("date"))>> >>),
      Dict(<<TypeOf("integer"), <<"default", Num(7)>> >>),
      Dict(<<TypeOf("array"), <<"items", Integer>> >>),
      Dict(<<TypeOf("array"), <<"items", Integer>>, <<"default", List(<<Num(1)>>)>> >>),
      Dict(<<TypeOf("object"), <<"additionalProperties", Number>> >>),
      Dict(<< <<"anyOf", List(<<Integer, Number>>)>> >>),
      Dict(<<Ref("A")>>),
      Dict(<<Ref("A"), <<"default", Num(7)>> >>),
      Dict(<<Ref("I")>>),
      Dict(<<Ref("P")>>),
      Dict(<<Ref("L")>>),
      Dict(<<Ref("Missing")>>),
      Dict(<< <<"$ref", Str(<<"#", "address">>)>> >>),
      InlineB,
      Dict(<< TypeOf("object"), <<"properties", Dict(<<>>)>> >>),
      Dict(<< <<"default", Num(7)>>, <<"allOf", List(<<Dict(<<Ref("A")>>)>>)>> >>),
      Dict(<< TypeOf("integer"), <<"allOf", List(<<>>)>> >>),
      Dict(<< <<"title", Str(S("B"))>>, TypeOf("object"),
              <<"properties", Dict(<<>>)>>, <<"allOf", List(<<>>)>> >>),
      Dict(<< Ref("I"), <<"allOf", List(<<>>)>> >>),
      Dict(<<>>) }

SecondNodes == { Integer, Dict(<<Ref("A")>>), InlineB, Dict(<<Ref("Q")>>) }

RequiredLists(names) ==
    { <<>> } \cup { <<Str(S(names[i]))>> : i \in 1..Len(names) }
             \cup { [i \in 1..Len(names) |-> Str(S(names[i]))] }

\* A root record "Model" with its definitions section.
Model(properties, required) ==
    Dict(<< <<"title", Str(S("Model"))>>, TypeOf("object"),
            <<"properties", Dict(properties)>>, <<"required", List(required)>>,
            <<"definitions", Definitions>> >>)

\* The document of a model that refers to itself: the root is a $ref to the
\* definition, whose property next_item refers to the definition again.
SelfReference ==
    Dict(<< <<"$ref", Str(<<"#", "/", "definitions", "/", "Model">>)>>,
            <<"definitions",
              Dict(<< <<"Model",
                        Record("Model",
                               << <<"value", Integer>>,
                                  <<"next_item",
                                    Dict(<< <<"$ref", Str(<<"#", "/", "definitions", "/", "Model">>)>> >>)>> >>,
                               <<Str(S("value"))>>)>> >>)>> >>)

Documents ==
    { Model(<< <<"x", n>> >>, r) : n \in PropertyNodes, r \in RequiredLists(<<"x">>) }
    \cup { Model(<< <<"x", n>>, <<"y", m>> >>, r) :
             n \in PropertyNodes, m \in SecondNodes, r \in RequiredLists(<<"x", "y">>) }
    \cup PrimitiveNodes
    \cup { SelfReference,
           Dict(<<Ref("P"), <<"definitions", Definitions>> >>),
           Dict(<<Ref("L"), <<"definitions", Definitions>> >>),
           Dict(<<TypeOf("array"), <<"items", Dict(<<Ref("A")>>)>>,
                  <<"definitions", Definitions>> >>) }

\* The namespace argument of the constructor: absent, or given.
NamespaceArgs == { None, Some(S("streamer")) }

(* ------------------------- the instance --------------------------------- *)

\* The JsonSchema instance, with an empty history for the run about to start.
Self == [schema |-> schema, namespace |-> namespace,
         parsed_objects |-> parsed_objects, trace |-> <<>>]

\* What a variable holds before the first to_avro() call.
NoResult == [none |-> TRUE]

\* The default of the constructor's namespace parameter (line 5).
DefaultNamespace == S("base")

\* JsonSchema(json_schema, namespace)
New(json_schema, namespace_arg) ==
    /\ schema' = json_schema
    /\ namespace' = IF namespace_arg = None THEN DefaultNamespace ELSE namespace_arg[1]
    /\ parsed_objects' = {}
    /\ result' = NoResult
    /\ trace' = <<>>
    /\ calls' = 0

Init ==
    \E d \in Documents, n \in NamespaceArgs :
        /\ schema = d
        /\ namespace = IF n = None THEN DefaultNamespace ELSE n[1]
        /\ parsed_objects = {}
        /\ result = NoResult
        /\ trace = <<>>
        /\ calls = 0

\* self.to_avro(): the outcome is the returned document, or the exception.
ToAvro ==
    /\ calls < MaxCalls
    /\ LET r == GetAvroTypeAndCall(Self, schema, None, TRUE, None, 0)
       IN /\ result' = IF IsErr(r) THEN [err |-> r.err] ELSE r.out
          /\ parsed_objects' = r.self.parsed_objects
          /\ trace' = r.self.trace
    /\ calls' = calls + 1
    /\ UNCHANGED <<schema, namespace>>

Construct == \E d \in Documents, n \in NamespaceArgs : New(d, n)

Next == ToAvro \/ Construct

Spec == Init /\ [][Next]_vars

(* ------------------- vocabulary of the properties ----------------------- *)

\* The outcome of a call: the returned document, or the exception.
Outcome(r) == IF IsErr(r) THEN [err |-> r.err] ELSE r.out

\* to_avro() on a new JsonSchema(d, namespace).
FreshRun(d) ==
    GetAvroTypeAndCall([schema |-> d, namespace |-> namespace,
                        parsed_objects |-> {}, trace |-> <<>>],
                       d, None, TRUE, None, 0)

Done == calls >= 1

FirstCall == calls = 1

Succeeded == Done /\ "obj" \in DOMAIN result

RecordShaped(v) == IsDict(v) /\ Classify(v) = "record"

TitledRecord(v) == RecordShaped(v) /\ Has(v, "title")

\* The positions of the history that hold an event of the given kind.
Events(kind) == { i \in 1..Len(trace) : trace[i].ev = kind }

\* The calls made for the properties of a record (only they carry a name).
PropertyCalls == { i \in Events("call") : trace[i].name # None }

\* d with the value of key k replaced.
SetItem(d, k, v) ==
    Dict([i \in 1..Len(d.dict) |-> IF d.dict[i][1] = k THEN <<k, v>> ELSE d.dict[i]])

\* d without key k.
DelItem(d, k) == Dict(SelectSeq(d.dict, LAMBDA kv : kv[1] # k))

PropertyCount == Len(Item(schema, "properties").dict)

PropertyName(i) == Item(schema, "properties").dict[i][1]

PropertyNode(i) == Item(schema, "properties").dict[i][2]

PropertyRequired(i) ==
    \E j \in 1..Len(GetOr(schema, "required", List(<<>>)).list) :
        GetOr(schema, "required", List(<<>>)).list[j] = Str(S(PropertyName(i)))

\* The root document with the node of its i-th property replaced.
WithProperty(d, i, node) ==
    SetItem(d, "properties",
            SetItem(Item(d, "properties"), Item(d, "properties").dict[i][1], node))

\* The root document with its i-th property listed in required.
WithRequired(d, i) ==
    SetItem(d, "required",
            List(Append(GetOr(d, "required", List(<<>>)).list,
                        Str(S(Item(d, "properties").dict[i][1])))))

\* The i-th entry of the fields list of the returned root record.
Field(i) == result.obj["fields"].list[i]

\* The type emitted for the i-th field when the document d is converted by a
\* new instance.
FieldTypeIn(d, i) == FreshRun(d).out.obj["fields"].list[i].obj["type"]

\* The nodes the conversion of node v recurses into.
Kids(root, v) ==
    IF ~IsDict(v) THEN {}
    ELSE LET shape == Classify(v)
         IN CASE shape = "record" ->
                   IF IsDict(Item(v, "properties"))
                   THEN { Item(v, "properties").dict[i][2] :
                            i \in 1..Len(Item(v, "properties").dict) }
                   ELSE {}
              [] shape = "map" ->
                   IF Has(v, "additionalProperties")
                   THEN { Item(v, "additionalProperties") } ELSE {}
              [] shape = "array" -> IF Has(v, "items") THEN { Item(v, "items") } ELSE {}
              [] shape = "union" ->
                   { Item(v, "anyOf").list[i] : i \in 1..Len(Item(v, "anyOf").list) }
              [] shape = "ref" ->
                   LET found == Find([schema |-> root], Item(v, "$ref").str)
                   IN IF IsErr(found) THEN {} ELSE { found.out }
              [] OTHER -> {}

RECURSIVE Reach(_, _)
\* The nodes of the document reachable from the nodes in from.
Reach(root, from) ==
    LET more == from \cup UNION { Kids(root, v) : v \in from }
    IN IF more = from THEN from ELSE Reach(root, more)

RECURSIVE ReachPlain(_, _)
\* The same, never walking out of a titled record-shaped object.
ReachPlain(root, from) ==
    LET more == from \cup UNION { Kids(root, v) : v \in { w \in from : ~TitledRecord(w) } }
    IN IF more = from THEN from ELSE ReachPlain(root, more)

\* Some cycle of the document passes through no titled record-shaped object.
HasPlainCycle(root) ==
    \E v \in Reach(root, {root}) :
        ~TitledRecord(v) /\ v \in ReachPlain(root, Kids(root, v))

(* ----------------------------- claims ----------------------------------- *)

\* C1: within one to_avro() run a qualified record name Q is emitted with its
\* fields list at most once; every other conversion of a record-shaped object
\* with the same Q returns exactly {type: "record", name: Q}, and the
\* properties of Q are converted no more than once each: every call made for
\* a property follows the one full emission of the record it belongs to.
C1_EmittedAtMostOnce ==
    Done =>
        /\ \A i, j \in Events("record_full") : trace[i].q = trace[j].q => i = j
        /\ \A i \in Events("record_ref") :
               trace[i].ret = Obj([type |-> Str(S("record")), name |-> Str(trace[i].q)])
        /\ \A j \in PropertyCalls :
               \E i \in Events("record_full") : i < j /\ trace[j].namespace = Some(trace[i].q)
        /\ \A i \in Events("record_full") :
               Cardinality({ j \in PropertyCalls : trace[j].namespace = Some(trace[i].q) })
                   <= Len(Item(trace[i].sch, "properties").dict)

\* A run that met the same qualified name twice: once in full, then again.
C1_Witness ==
    /\ Succeeded
    /\ \E i \in Events("record_full"), j \in Events("record_ref") :
           i < j /\ trace[i].q = trace[j].q

\* C3: to_avro() ends without exhausting the stack on every document whose
\* cycles all pass through a titled record-shaped object, and whenever a
\* property of a record is converted the record's qualified name is already
\* in the registry.
C3_CyclesThroughRecordsTerminate ==
    Done =>
        /\ ~HasPlainCycle(schema) => result # [err |-> "RecursionError"]
        /\ \A j \in PropertyCalls : trace[j].namespace[1] \in trace[j].parsed

\* A document with a cycle through a record was converted: the record was
\* entered again while its own fields were being converted.
C3_Witness ==
    /\ Succeeded
    /\ ~HasPlainCycle(schema)
    /\ \E v \in Reach(schema, {schema}) : v \in Reach(schema, Kids(schema, v))
    /\ Events("record_ref") # {}

\* C2: every to_avro() call returns what a call on a new JsonSchema of the
\* same document and namespace returns, also a repeated call on the same
\* instance.
C2_RepeatedCallSameOutput == Done => result = Outcome(FreshRun(schema))

\* The type the primitive rules are said to give a node.
C4_ExpectedType(sch) ==
    LET t == Get(sch, "type")
        f == Get(sch, "format")
        logical(object_type, logical_type) ==
            Obj([type |-> Str(S(object_type)), logicalType |-> Str(S(logical_type))])
    IN IF t = Str(S("string"))
       THEN IF f = Str(S("binary")) THEN [out |-> Str(S("bytes"))]
            ELSE IF f = Str(S("date")) THEN [out |-> logical("int", "date")]
            ELSE IF f = Str(S("time")) THEN [out |-> logical("long", "time-micros")]
            ELSE IF f = Str(S("date-time")) THEN [out |-> logical("long", "timestamp-micros")]
            ELSE [out |-> Str(S("string"))]
       ELSE IF t = Str(S("integer")) THEN [out |-> Str(S("long"))]
       ELSE IF t = Str(S("number")) THEN [out |-> Str(S("double"))]
       ELSE [err |-> UnknownType]

\* C4: a node that reaches the primitive rules converts to bytes, the date,
\* time-micros or timestamp-micros logical type, string, long or double
\* according to its type and format, and any other node fails with the
\* unknown-type error.
C4_PrimitiveRules ==
    (Done /\ schema \in PrimitiveNodes) =>
        IF IsErr(C4_ExpectedType(schema))
        THEN result = [err |-> UnknownType]
        ELSE /\ Succeeded
             /\ result.obj["type"] = C4_ExpectedType(schema).out

\* C5: a property that is not required and has no default becomes
\* {name, type: ["null", T], default: null}, T being the type emitted for the
\* same node when it is required; a required property with no default
\* becomes {name, type: T}.
C5_OptionalWidened ==
    (FirstCall /\ Succeeded /\ RecordShaped(schema)) =>
        \A i \in 1..PropertyCount :
            Get(PropertyNode(i), "default") = Null =>
                IF PropertyRequired(i)
                THEN Field(i) = Obj([name |-> Str(S(PropertyName(i))),
                                     type |-> FieldTypeIn(schema, i)])
                ELSE Field(i) = Obj([name |-> Str(S(PropertyName(i))),
                                     type |-> List(<<Str(S("null")),
                                                     FieldTypeIn(WithRequired(schema, i), i)>>),
                                     default |-> Null])

\* C6: a property whose node carries a default becomes a field with the
\* non-widened type T (the type emitted for the node without the default,
\* when required) and a field-level default equal to the source default.
C6_DefaultVerbatim ==
    (FirstCall /\ Succeeded /\ RecordShaped(schema)) =>
        \A i \in 1..PropertyCount :
            Get(PropertyNode(i), "default") # Null =>
                /\ "default" \in DOMAIN Field(i).obj
                /\ Field(i).obj["default"] = Get(PropertyNode(i), "default")
                /\ Field(i).obj["type"] =
                       FieldTypeIn(WithProperty(WithRequired(schema, i), i,
                                                DelItem(PropertyNode(i), "default")), i)

\* The property call at position j of the history is made for a $ref that
\* resolves to a titled record-shaped object.
RefToRecord(j) ==
    /\ IsDict(trace[j].sch)
    /\ Classify(trace[j].sch) = "ref"
    /\ ~IsErr(Find([schema |-> schema], Item(trace[j].sch, "$ref").str))
    /\ TitledRecord(Find([schema |-> schema], Item(trace[j].sch, "$ref").str).out)

\* The position of the record event that belongs to the property call j: the
\* next one for an inline object, the one after the call on the resolved node
\* for a $ref.
RecordEventOf(j) == IF RecordShaped(trace[j].sch) THEN j + 1 ELSE j + 2

\* C7 as stated: every record emitted for a property of the record N.T, be
\* the property node an inline object or a $ref to one, has namespace N.T and
\* is registered under N.T.title.
C7_NestedNamespaceAlways ==
    Done =>
        \A j \in PropertyCalls :
            (TitledRecord(trace[j].sch) \/ RefToRecord(j)) =>
                LET e == trace[RecordEventOf(j)]
                IN e.ev = "record_full" =>
                       /\ Str(e.namespace) = Str(trace[j].namespace[1])
                       /\ e.q = trace[j].namespace[1] \o <<".">> \o Item(e.sch, "title").str

\* C7, amended: a root record emitted in full has the caller's namespace; a
\* record converted for an inline-object property of the record N.T is
\* registered under N.T.title and, when emitted in full, has namespace N.T; a
\* record converted for a property that is a $ref to an object is registered
\* under the root namespace + "." + title and, when emitted in full, has the
\* root namespace.
C7_NestedNamespaceInlineOnly ==
    Done =>
        /\ (TitledRecord(schema) /\ trace[2].ev = "record_full") =>
               /\ trace[2].namespace = namespace
               /\ Succeeded => result.obj["namespace"] = Str(namespace)
        /\ \A j \in PropertyCalls :
               (TitledRecord(trace[j].sch) \/ RefToRecord(j)) =>
                   /\ RecordEventOf(j) <= Len(trace)
                   /\ LET e == trace[RecordEventOf(j)]
                          ns == IF RecordShaped(trace[j].sch)
                                THEN trace[j].namespace[1] ELSE namespace
                      IN /\ e.ev \in {"record_full", "record_ref"}
                         /\ e.q = ns \o <<".">> \o Item(e.sch, "title").str
                         /\ e.ev = "record_full" => e.namespace = ns

\* One run emitted in full a record for a $ref property and a record for an
\* inline-object property.
C7_Witness ==
    /\ Succeeded
    /\ \E j \in PropertyCalls : RefToRecord(j) /\ trace[j + 2].ev = "record_full"
    /\ \E j \in PropertyCalls :
           TitledRecord(trace[j].sch) /\ trace[j + 1].ev = "record_full"

\* C8: a $ref property converts to exactly what the node it resolves to
\* converts to in its place, with the same name, required flag and namespace.
C8_RefTransparent ==
    (FirstCall /\ RecordShaped(schema)) =>
        \A i \in 1..PropertyCount :
            LET node == PropertyNode(i)
                found == Find([schema |-> schema], Item(node, "$ref").str)
            IN (Classify(node) = "ref" /\ ~IsErr(found)) =>
                   result = Outcome(FreshRun(WithProperty(schema, i, found.out)))

\* A node with allOf was visited during the run.
VisitedAllOf(j) == IsDict(trace[j].sch) /\ Has(trace[j].sch, "allOf")

\* C9 as stated: if any visited node has allOf, whatever its other keys,
\* to_avro() fails with the nested-default error.
C9_AllOfAlwaysFails ==
    (Done /\ \E j \in Events("call") : VisitedAllOf(j)) => result = [err |-> NestedDefault]

\* The visited node has allOf, its type is neither object nor array, and it
\* has neither $ref nor anyOf.
VisitedBareAllOf(j) ==
    /\ VisitedAllOf(j)
    /\ Get(trace[j].sch, "type") \notin {Str(S("object")), Str(S("array"))}
    /\ ~Has(trace[j].sch, "$ref")
    /\ ~Has(trace[j].sch, "anyOf")

\* C9, amended: if a visited node has allOf, a type that is neither object
\* nor array, and neither $ref nor anyOf, to_avro() fails with the
\* nested-default error.
C9_BareAllOfFails ==
    (Done /\ \E j \in Events("call") : VisitedBareAllOf(j)) => result = [err |-> NestedDefault]

\* A run visited such a node, one that also has a primitive type, and failed.
C9_Witness ==
    /\ Done
    /\ \E j \in Events("call") :
           VisitedBareAllOf(j) /\ Get(trace[j].sch, "type") = Str(S("integer"))
    /\ result = [err |-> NestedDefault]

\* C10: the fields list of a record emitted in full has one entry per
\* property, in declaration order, each a field wrapper {name, type,
\* [default]} named after its property.
C10_OneWrapperPerProperty ==
    (FirstCall /\ Succeeded /\ RecordShaped(schema)) =>
        /\ Len(result.obj["fields"].list) = PropertyCount
        /\ \A i \in 1..PropertyCount :
               /\ {"name", "type"} \subseteq DOMAIN Field(i).obj
               /\ DOMAIN Field(i).obj \subseteq {"name", "type", "default"}
               /\ Field(i).obj["name"] = Str(S(PropertyName(i)))

====
